---- MODULE Spec2Model ----
(***************************************************************************)
(* Model of the Streamlit image-to-3D application: the API key manager     *)
(* (src/api_key_manager.py) and the script main() with the request client  *)
(* and the GLB-to-STL converter (src/streamlit-cad-app.py).                *)
(*                                                                         *)
(* One step of Spec is one complete run of the script main(): Streamlit    *)
(* reruns the script from the top on every user interaction.  The inputs   *)
(* of a run are the widget values, the uploaded file, whether the button   *)
(* was clicked, the answer of the remote API and the answer of the mesh    *)
(* library; st.session_state, os.environ and the temporary directory       *)
(* persist from one run to the next.                                       *)
(***************************************************************************)
EXTENDS Integers, Sequences, FiniteSets, TLC

-----------------------------------------------------------------------------
(* Bounds of the model *)

\* Largest number of leftover temporary files the model follows.
MaxTmpFiles == 2

-----------------------------------------------------------------------------
(* Values *)

\* A mapping that does not hold the key ('STABILITY_API_KEY' not in ...).
Absent == "<absent>"
\* Python's None.
None == "<None>"
\* Python's str(None), as an f-string formats it.
NoneText == "None"

\* Credential strings: the empty string and two keys.
ApiKeys == {"", "sk-1", "sk-2"}
\* What a credential source may hold under its name.
SourceValues == ApiKeys \cup {Absent}

\* Python truthiness of an Optional[str].
Truthy(v) == v # None /\ v # ""

\* str(v) of an Optional[str] inside an f-string.
Str(v) == IF v = None THEN NoneText ELSE v

ApiUrl == "https://api.stability.ai/v2beta/3d/stable-fast-3d"

\* Slider limits of the vertex count.
VertexCountMin == -1
VertexCountMax == 20000

RemeshOptions == {"none", "quad", "triangle"}
\* Vertex counts the slider can give: both ends, the default -1 and 0.
VertexCounts == {VertexCountMin, 0, VertexCountMax}
\* Foreground ratios in hundredths (0.1 .. 1.0 in steps of 0.05): minimum,
\* default, maximum.
ForegroundRatios == {10, 85, 100}
Widgets == [remesh : RemeshOptions, vertex_count : VertexCounts,
            foreground_ratio : ForegroundRatios]
DefaultWidgets == [remesh |-> "none", vertex_count |-> VertexCountMin,
                   foreground_ratio |-> 85]

\* The uploaded files Image.open accepts: one PIL can save as PNG, and one it
\* cannot (a CMYK JPEG).
GoodUploads == {[name |-> "cup.png", opens |-> TRUE, png_ok |-> TRUE],
                [name |-> "cmyk.jpg", opens |-> TRUE, png_ok |-> FALSE]}

\* An exception: its class and str(e).  NoError: nothing was raised.
NoError == [type |-> "", text |-> ""]

\* Bodies of a non-200 answer.  A JSON object is the sequence of its
\* (key, value) pairs in document order, as a Python dict keeps them.
ErrorObjects == { << <<"message", "bad request">> >>,
                  << <<"name", "unauthorized">> >>,
                  << <<"name", "bad_request">>, <<"message", "image too large">> >> }

RECURSIVE JoinItems(_, _, _)
\* "k: v, k: v" with every key and value between quotes q.
JoinItems(d, q, i) ==
    IF i > Len(d) THEN ""
    ELSE (IF i > 1 THEN ", " ELSE "")
         \o q \o d[i][1] \o q \o ": " \o q \o d[i][2] \o q
         \o JoinItems(d, q, i + 1)

\* The JSON text of an object, as the server sends it.
JsonText(d) == "{" \o JoinItems(d, "\"", 1) \o "}"

\* Python's str(dict): the repr, with single quotes.
PyStr(d) == "{" \o JoinItems(d, "'", 1) \o "}"

RECURSIVE DictGetFrom(_, _, _, _)
DictGetFrom(d, k, default, i) ==
    IF i > Len(d) THEN default
    ELSE IF d[i][1] = k THEN d[i][2]
    ELSE DictGetFrom(d, k, default, i + 1)

\* dict.get(k, default)
DictGet(d, k, default) == DictGetFrom(d, k, default, 1)

HasKey(d, k) == \E i \in 1..Len(d) : d[i][1] = k

ObjectBody(d) == [kind |-> "object", obj |-> d, text |-> JsonText(d)]
ArrayBody == [kind |-> "array", obj |-> <<>>, text |-> "[]"]
TextBody == [kind |-> "text", obj |-> <<>>, text |-> "<html>502 Bad Gateway</html>"]
NoBody == [kind |-> "none", obj |-> <<>>, text |-> ""]
ErrorBodies == {ObjectBody(d) : d \in ErrorObjects} \cup {ArrayBody, TextBody}

\* Binary contents of a 200 answer (bytes).
Contents == {<<>>, <<103, 108, 84, 70, 2>>}

\* What requests.post does: it raises (no connection), or returns a response.
TransportFailure == [kind |-> "transport_error", status |-> 0,
                     content |-> <<>>, body |-> NoBody]
NotCalled == [kind |-> "none", status |-> 0, content |-> <<>>, body |-> NoBody]
OkResponses == {[kind |-> "response", status |-> 200, content |-> c, body |-> NoBody]
                  : c \in Contents}
ErrorResponses == {[kind |-> "response", status |-> 400, content |-> <<>>, body |-> b]
                     : b \in ErrorBodies}
NetOutcomes == OkResponses \cup ErrorResponses \cup {TransportFailure}

NoStl == [format |-> "none", mesh_of |-> <<>>]

VARIABLES
    secrets,            \* st.secrets['STABILITY_API_KEY'], or Absent
    session_key,        \* st.session_state.stability_api_key, or Absent
    environ,            \* os.environ['STABILITY_API_KEY'], or Absent
    has_generator,      \* 'generator' in st.session_state
    generator_api_key,  \* st.session_state.generator.api_key
    tmp_files,          \* temporary .glb files left on disk
    rendered,           \* the page shows the outcome of a finished run
    resolved,           \* what the last get_api_key() call returned
    prompted,           \* the last run showed the API key input
    halted,             \* the last run ended in st.stop()
    widgets,            \* the widget values of the last run
    posts,              \* the POST requests the last run issued
    response,           \* what requests.post gave the last run
    generated,          \* generate_3d_model returned in the last run
    model_data,         \* the bytes it returned
    raised,             \* the exception generate_3d_model raised in the last run
    stl_data,           \* what convert_glb_to_stl returned in the last run
    stl_raised,         \* the exception convert_glb_to_stl raised in the last run
    shown,              \* the st.error messages of the last run
    uncaught,           \* the exception that left main() in the last run
    faults,             \* history: the operations that failed in the last run
    generators_created, \* history: StabilityAI3DGenerator objects constructed
    first_key,          \* history: what get_api_key returned at the first construction
    prompt_saved,       \* history: the prompt has stored a non-empty value
    entered             \* history: the value the prompt stored last

keyvars == <<secrets, session_key, environ, has_generator, generator_api_key,
             generators_created, first_key, prompt_saved, entered>>
runvars == <<resolved, prompted, halted, widgets, posts, response, generated,
             model_data, raised, stl_data, stl_raised, shown, uncaught, faults>>
vars == <<keyvars, runvars, tmp_files, rendered>>

-----------------------------------------------------------------------------
(* api_key_manager.py *)

\* Variant: the environment variable is looked up before the session cache.
get_api_key_env_first(sec, ses, env) ==
    IF sec # Absent THEN sec
    ELSE IF env # Absent THEN env
    ELSE IF ses # Absent THEN ses
    ELSE None

\* APIKeyManager.get_api_key over the three sources.
get_api_key(sec, ses, env) ==
    IF sec # Absent THEN sec
    ELSE IF ses # Absent THEN ses
    ELSE IF env # Absent THEN env
    ELSE None

\* The values st.sidebar.text_input can return in a run: the field exists
\* only when setup_api_key_ui does not find a key.
TextInputs ==
    IF Truthy(get_api_key(secrets, session_key, environ)) THEN {""} ELSE ApiKeys

\* APIKeyManager.setup_api_key_ui with `typed` in the input field: what it
\* returns ("True", or "stop" for st.stop()) and what it leaves in the
\* session cache and the environment.
setup_api_key_ui(typed) ==
    LET api_key == get_api_key(secrets, session_key, environ) IN
    IF Truthy(api_key)
    THEN [result |-> "True", api_key |-> api_key, prompted |-> FALSE,
          saved |-> FALSE, session |-> session_key, env |-> environ]
    ELSE IF typed # ""
    THEN [result |-> "True", api_key |-> api_key, prompted |-> TRUE,
          saved |-> TRUE, session |-> typed, env |-> typed]
    ELSE [result |-> "stop", api_key |-> api_key, prompted |-> TRUE,
          saved |-> FALSE, session |-> session_key, env |-> environ]

-----------------------------------------------------------------------------
(* streamlit-cad-app.py: StabilityAI3DGenerator *)

\* image.save(img_byte_arr, format='PNG'): the PNG bytes of an image.
PngOf(image) == <<"PNG", image.name>>

\* Variant: the message of the body is raised as it is.
ApiErrorText_no_prefix(msg) == msg

\* f"API Error: {error_msg}"
ApiErrorText(msg) == "API Error: " \o msg

\* The else branch of generate_3d_model: the exception a non-200 response
\* ends in.  response.json() raises on a body that is not JSON; a JSON array
\* has no get(); an object gives its message, or str() of itself.
ErrorOfResponse(resp) ==
    IF resp.body.kind = "text"
    THEN [type |-> "JSONDecodeError",
          text |-> "Expecting value: line 1 column 1 (char 0)"]
    ELSE IF resp.body.kind = "array"
    THEN [type |-> "AttributeError",
          text |-> "'list' object has no attribute 'get'"]
    ELSE [type |-> "Exception",
          text |-> ApiErrorText(DictGet(resp.body.obj, "message",
                                        PyStr(resp.body.obj)))]

\* The request of requests.post(self.api_url, headers=, files=, data=params).
RequestOf(api_key, image, params) ==
    [url |-> ApiUrl, authorization |-> "Bearer " \o Str(api_key),
     image |-> PngOf(image), data |-> params]

\* Variant: the last byte of the content is lost.
ResultOfResponse_truncated(resp) == SubSeq(resp.content, 1, Len(resp.content) - 1)

\* return response.content
ResultOfResponse(resp) == resp.content

\* The POSTs one generate_3d_model call issues: one, whatever comes back.
PostsOfCall(req, net) == <<req>>

\* StabilityAI3DGenerator.generate_3d_model(image, params) of a generator
\* holding api_key, when requests.post gives `net`: the requests issued, and
\* the bytes returned or the exception raised (the except clause logs and
\* re-raises).
generate_3d_model(api_key, image, params, net) ==
    IF ~image.png_ok
    THEN [posts |-> <<>>, net |-> NotCalled, ok |-> FALSE, returned |-> <<>>,
          raised |-> [type |-> "OSError", text |-> "cannot write mode CMYK as PNG"]]
    ELSE LET req == RequestOf(api_key, image, params) IN
         IF net.kind = "transport_error"
         THEN [posts |-> PostsOfCall(req, net), net |-> net, ok |-> FALSE,
               returned |-> <<>>,
               raised |-> [type |-> "ConnectionError",
                           text |-> "Failed to establish a new connection"]]
         ELSE IF net.status = 200
         THEN [posts |-> PostsOfCall(req, net), net |-> net, ok |-> TRUE,
               returned |-> ResultOfResponse(net), raised |-> NoError]
         ELSE [posts |-> PostsOfCall(req, net), net |-> net, ok |-> FALSE,
               returned |-> <<>>, raised |-> ErrorOfResponse(net)]

-----------------------------------------------------------------------------
(* streamlit-cad-app.py: convert_glb_to_stl *)

\* What trimesh does with the file: it loads and exports, fails to load, or
\* fails to export.
LibOutcomes == {"ok", "load_fails", "export_fails"}

\* convert_glb_to_stl(glb_data) when the mesh library answers `lib`.
\* NamedTemporaryFile(delete=False) creates the file and leaves it at close;
\* os.unlink (line 118) runs only after load and export have both returned.
convert_glb_to_stl(glb_data, lib) ==
    LET created == 1
        loaded == lib # "load_fails"
        exported == loaded /\ lib # "export_fails"
        unlinked == IF exported THEN 1 ELSE 0
    IN  [ok |-> exported,
         stl |-> IF exported THEN [format |-> "stl", mesh_of |-> glb_data] ELSE NoStl,
         raised |-> IF ~loaded
                    THEN [type |-> "ValueError", text |-> "file is not a valid GLB"]
                    ELSE IF ~exported
                    THEN [type |-> "ValueError", text |-> "mesh cannot be exported"]
                    ELSE NoError,
         tmp_left |-> created - unlinked]

-----------------------------------------------------------------------------
(* streamlit-cad-app.py: main *)

\* get_api_key has not been called yet.
NotResolved == "<not called>"

\* The classes `except Exception` catches; st.stop() raises none of them.
ExceptionClasses == {"Exception", "OSError", "ConnectionError", "JSONDecodeError",
                     "AttributeError", "ValueError", "UnidentifiedImageError"}

\* What is left of e after `except Exception as e:`.
AfterExcept(e) == IF e.type \in ExceptionClasses THEN NoError ELSE e

\* st.error(f"Error loading image: {str(e)}")
ImageErrorShown(e) ==
    IF e.type \in ExceptionClasses THEN {"Error loading image: " \o e.text} ELSE {}

\* st.error(f"Error generating 3D model: {str(e)}")
GenerationErrorShown(e) ==
    IF e.type \in ExceptionClasses THEN {"Error generating 3D model: " \o e.text} ELSE {}

\* Variant: the handler of the conversion swallows the exception.
ConversionErrorShown_silent(e) == {}

\* st.error(f"Error converting to STL: {str(e)}")
ConversionErrorShown(e) ==
    IF e.type \in ExceptionClasses THEN {"Error converting to STL: " \o e.text} ELSE {}

\* Variant: vertex_count is popped for every value up to 0.
BuildParams_drops_zero(w) ==
    LET p == [remesh |-> w.remesh, vertex_count |-> w.vertex_count,
              foreground_ratio |-> w.foreground_ratio]
    IN  IF w.vertex_count <= 0
        THEN [k \in DOMAIN p \ {"vertex_count"} |-> p[k]]
        ELSE p

\* Lines 189-197: the params dict, vertex_count popped when it is -1.
BuildParams(w) ==
    LET p == [remesh |-> w.remesh, vertex_count |-> w.vertex_count,
              foreground_ratio |-> w.foreground_ratio]
    IN  IF w.vertex_count = -1
        THEN [k \in DOMAIN p \ {"vertex_count"} |-> p[k]]
        ELSE p

\* Variant: the generator is constructed in every run.
NeedGenerator_every_run == TRUE

\* if 'generator' not in st.session_state
NeedGenerator == ~has_generator

\* Lines 130-140 of a run that setup_api_key_ui lets through: the key is
\* saved if the prompt got one, and the generator is made if the session has
\* none, with what get_api_key returns then.
KeyStep(typed) ==
    LET s == setup_api_key_ui(typed)
        api_key == get_api_key(secrets, s.session, s.env)
    IN  /\ ~rendered
        /\ rendered' = TRUE
        /\ s.result = "True"
        /\ secrets' = secrets
        /\ session_key' = s.session
        /\ environ' = s.env
        /\ prompted' = s.prompted
        /\ halted' = FALSE
        /\ resolved' = IF NeedGenerator THEN api_key ELSE s.api_key
        /\ has_generator' = TRUE
        /\ generator_api_key' = IF NeedGenerator THEN api_key ELSE generator_api_key
        /\ generators_created' =
               IF NeedGenerator THEN generators_created + 1 ELSE generators_created
        /\ first_key' = IF NeedGenerator /\ generators_created = 0
                        THEN api_key ELSE first_key
        /\ prompt_saved' = (prompt_saved \/ s.saved)
        /\ entered' = IF s.saved THEN typed ELSE entered

\* A run that calls neither the generator nor the converter.
NothingGenerated ==
    /\ posts' = <<>>
    /\ response' = NotCalled
    /\ generated' = FALSE
    /\ model_data' = <<>>
    /\ raised' = NoError
    /\ stl_data' = NoStl
    /\ stl_raised' = NoError
    /\ UNCHANGED tmp_files

\* main(): no key is found and the input field is left empty; st.stop()
\* (line 39) ends the run before anything else is drawn.
RunStopped(typed) ==
    LET s == setup_api_key_ui(typed)
    IN  /\ ~rendered
        /\ rendered' = TRUE
        /\ s.result = "stop"
        /\ resolved' = s.api_key
        /\ prompted' = s.prompted
        /\ halted' = TRUE
        /\ NothingGenerated
        /\ shown' = {}
        /\ uncaught' = NoError
        /\ faults' = {}
        /\ UNCHANGED <<secrets, session_key, environ, has_generator,
                       generator_api_key, generators_created, first_key,
                       prompt_saved, entered, widgets>>

\* main(): no file is uploaded.
RunIdle(typed, w) ==
    /\ KeyStep(typed)
    /\ widgets' = w
    /\ NothingGenerated
    /\ shown' = {}
    /\ uncaught' = NoError
    /\ faults' = {}

\* main(): Image.open raises on the uploaded file (line 180).
RunImageError(typed, w) ==
    LET e == [type |-> "UnidentifiedImageError",
              text |-> "cannot identify image file"]
    IN  /\ KeyStep(typed)
        /\ widgets' = w
        /\ NothingGenerated
        /\ shown' = ImageErrorShown(e)
        /\ uncaught' = AfterExcept(e)
        /\ faults' = {"image"}

\* main(): the image is shown and the button is not clicked.
RunPreview(typed, w, image) ==
    /\ KeyStep(typed)
    /\ image.opens
    /\ widgets' = w
    /\ NothingGenerated
    /\ shown' = {}
    /\ uncaught' = NoError
    /\ faults' = {}

\* The answers requests.post can give a call for this image.
NetAnswers(image) == IF image.png_ok THEN NetOutcomes ELSE {NotCalled}

\* The answers of the mesh library, asked only after a 200.
LibAnswers(image, net) ==
    IF image.png_ok /\ net.kind = "response" /\ net.status = 200
    THEN LibOutcomes ELSE {"not_called"}

\* main(): 'Generate 3D Model' is clicked (lines 185-238).
RunGenerate(typed, w, image, net, lib) ==
    LET s == setup_api_key_ui(typed)
        key == IF NeedGenerator THEN get_api_key(secrets, s.session, s.env)
               ELSE generator_api_key
        gen == generate_3d_model(key, image, BuildParams(w), net)
        conv == IF gen.ok THEN convert_glb_to_stl(gen.returned, lib)
                ELSE [ok |-> TRUE, stl |-> NoStl, raised |-> NoError, tmp_left |-> 0]
    IN  /\ KeyStep(typed)
        /\ image.opens
        /\ conv.tmp_left = 0 \/ tmp_files < MaxTmpFiles
        /\ widgets' = w
        /\ posts' = gen.posts
        /\ response' = gen.net
        /\ generated' = gen.ok
        /\ model_data' = gen.returned
        /\ raised' = gen.raised
        /\ stl_data' = conv.stl
        /\ stl_raised' = conv.raised
        /\ tmp_files' = tmp_files + conv.tmp_left
        /\ shown' = (IF gen.ok THEN ConversionErrorShown(conv.raised)
                     ELSE GenerationErrorShown(gen.raised))
        /\ uncaught' = IF gen.ok THEN AfterExcept(conv.raised)
                       ELSE AfterExcept(gen.raised)
        /\ faults' = (IF gen.ok THEN {} ELSE {"generation"})
                     \cup (IF conv.ok THEN {} ELSE {"conversion"})

-----------------------------------------------------------------------------
(* Specifications *)

NoRunYet ==
    /\ resolved = NotResolved
    /\ prompted = FALSE
    /\ halted = FALSE
    /\ widgets = DefaultWidgets
    /\ posts = <<>>
    /\ response = NotCalled
    /\ generated = FALSE
    /\ model_data = <<>>
    /\ raised = NoError
    /\ stl_data = NoStl
    /\ stl_raised = NoError
    /\ shown = {}
    /\ uncaught = NoError
    /\ faults = {}
    /\ has_generator = FALSE
    /\ generator_api_key = Absent
    /\ generators_created = 0
    /\ first_key = Absent
    /\ prompt_saved = FALSE
    /\ entered = Absent
    /\ tmp_files = 0
    /\ rendered = FALSE

\* A new session: st.session_state is empty; the secret store and the
\* environment hold whatever the deployment gave them.
Init ==
    /\ secrets \in SourceValues
    /\ session_key = Absent
    /\ environ \in SourceValues
    /\ NoRunYet

\* The runs of the script: each \E draws what the user and the outside world
\* give that run.
Stopped == \E typed \in TextInputs : RunStopped(typed)

Idle == \E typed \in TextInputs, w \in Widgets : RunIdle(typed, w)

ImageError == \E typed \in TextInputs, w \in Widgets : RunImageError(typed, w)

Preview ==
    \E typed \in TextInputs, w \in Widgets, image \in GoodUploads :
        RunPreview(typed, w, image)

Generate ==
    \E typed \in TextInputs, w \in Widgets, image \in GoodUploads :
        \E net \in NetAnswers(image) : \E lib \in LibAnswers(image, net) :
            RunGenerate(typed, w, image, net, lib)

\* The user acts on the page and Streamlit starts the next run of the
\* script from the top: what the finished run drew is discarded.  The
\* session state, the environment and the files on disk stay.
Rerun ==
    /\ rendered
    /\ rendered' = FALSE
    /\ resolved' = NotResolved
    /\ prompted' = FALSE
    /\ halted' = FALSE
    /\ widgets' = DefaultWidgets
    /\ posts' = <<>>
    /\ response' = NotCalled
    /\ generated' = FALSE
    /\ model_data' = <<>>
    /\ raised' = NoError
    /\ stl_data' = NoStl
    /\ stl_raised' = NoError
    /\ shown' = {}
    /\ uncaught' = NoError
    /\ faults' = {}
    /\ UNCHANGED <<keyvars, tmp_files>>

Next == Stopped \/ Idle \/ ImageError \/ Preview \/ Generate \/ Rerun

Spec == Init /\ [][Next]_vars

\* get_api_key as a function of the three sources, each of them absent,
\* empty or a key.
InitResolve ==
    /\ secrets \in SourceValues
    /\ session_key \in SourceValues
    /\ environ \in SourceValues
    /\ NoRunYet

Resolve ==
    /\ resolved = NotResolved
    /\ resolved' = get_api_key(secrets, session_key, environ)
    /\ UNCHANGED <<keyvars, tmp_files, rendered, prompted, halted, widgets, posts, response,
                   generated, model_data, raised, stl_data, stl_raised, shown,
                   uncaught, faults>>

SpecResolve == InitResolve /\ [][Resolve]_vars

-----------------------------------------------------------------------------
(* Properties *)

\* The last run got a non-200 response.
ErrorResponse == response.kind = "response" /\ response.status # 200

\* C1: the outbound generation request is only ever issued by a generator
\* whose credential is a non-empty string; without a non-empty credential no
\* generator is created or called.
C1_NoGenerationWithoutCredential ==
    /\ has_generator => Truthy(generator_api_key)
    /\ \A i \in 1..Len(posts) :
          /\ Truthy(generator_api_key)
          /\ posts[i].authorization = "Bearer " \o generator_api_key

C3_SavedKeyResolves ==
    prompt_saved =>
        /\ session_key = entered
        /\ environ = entered
        /\ Truthy(get_api_key(secrets, session_key, environ))

\* C4: after any sequence of conversions no temporary file is left.
C4_NoTempFileLeft == tmp_files = 0

\* C5, as stated: for a non-200 response whose JSON body has a message field
\* m, the message of the raised error equals m.
C5_MessageEqualsField ==
    ErrorResponse /\ response.body.kind = "object" =>
        \A i \in 1..Len(response.body.obj) :
            response.body.obj[i][1] = "message"
                => raised.text = response.body.obj[i][2]

\* C5, amended: for a non-200 response whose JSON body is an object with a
\* message field m, the raised error is an Exception whose message is
\* "API Error: " followed by m.
C5_MessageIsPrefixedField ==
    ErrorResponse /\ response.body.kind = "object" =>
        \A i \in 1..Len(response.body.obj) :
            response.body.obj[i][1] = "message"
                => /\ raised.type = "Exception"
                   /\ raised.text = "API Error: " \o response.body.obj[i][2]

\* The response 400 {"message": "bad request"} has raised "API Error: bad request".
C5_Witness ==
    /\ ErrorResponse
    /\ response.body.text = "{\"message\": \"bad request\"}"
    /\ raised = [type |-> "Exception", text |-> "API Error: bad request"]

\* C6: the data of the outbound request has no vertex_count when the chosen
\* vertex count is -1, has vertex_count equal to the chosen value when that
\* is in 0..20000, and always has remesh and foreground_ratio equal to the
\* chosen values.
C6_OutboundParams ==
    \A i \in 1..Len(posts) :
        LET d == posts[i].data IN
        /\ widgets.vertex_count = -1 => "vertex_count" \notin DOMAIN d
        /\ widgets.vertex_count \in 0..20000
              => /\ "vertex_count" \in DOMAIN d
                 /\ d["vertex_count"] = widgets.vertex_count
        /\ "remesh" \in DOMAIN d
        /\ d["remesh"] = widgets.remesh
        /\ "foreground_ratio" \in DOMAIN d
        /\ d["foreground_ratio"] = widgets.foreground_ratio

\* A request went out with the vertex count left at -1.
C6_Witness ==
    /\ Len(posts) = 1
    /\ widgets.vertex_count = -1
    /\ widgets.remesh = "quad"
    /\ DOMAIN posts[1].data = {"remesh", "foreground_ratio"}

\* C7: on a 200 response generate_3d_model returns the content of the
\* response unchanged, after exactly one POST.
C7_ReturnsContent ==
    response.kind = "response" /\ response.status = 200 =>
        /\ generated
        /\ model_data = response.content
        /\ Len(posts) = 1

\* A 200 response with five bytes of content was returned as it came.
C7_Witness ==
    /\ response.status = 200
    /\ generated
    /\ model_data = <<103, 108, 84, 70, 2>>
    /\ Len(posts) = 1

\* C8: every failure of a run (image decoding, the generation call, the STL
\* conversion) has its error message on the page of that run, the run issued
\* at most one POST, no exception left main(), and the script ran to its end
\* so that the page takes the same action again.
C8_FailuresSurfaced ==
    /\ "image" \in faults
          => "Error loading image: cannot identify image file" \in shown
    /\ "generation" \in faults
          => ("Error generating 3D model: " \o raised.text) \in shown
    /\ "conversion" \in faults
          => ("Error converting to STL: " \o stl_raised.text) \in shown
    /\ Len(posts) <= 1
    /\ uncaught = NoError
    /\ faults # {} => rendered /\ ~halted /\ ENABLED Rerun

\* The generation succeeded and the conversion failed, with its message shown.
C8_Witness ==
    /\ faults = {"conversion"}
    /\ generated
    /\ shown = {"Error converting to STL: file is not a valid GLB"}

\* C9: every non-200 response without a message field, its body a JSON
\* object without the field or not JSON at all, ends in an API error (the
\* Exception of line 56) that carries the body of the response: its text,
\* or str() of the parsed object, with or without the "API Error: " prefix.
C9_FallbackToRawBody ==
    /\ ErrorResponse
    /\ response.body.kind \in {"object", "text"}
    /\ ~HasKey(response.body.obj, "message")
    => /\ raised.type = "Exception"
       /\ raised.text \in {response.body.text,
                           "API Error: " \o response.body.text,
                           PyStr(response.body.obj),
                           "API Error: " \o PyStr(response.body.obj)}

\* C10: a session constructs at most one generator, the generator keeps the
\* credential get_api_key returned at its construction, and every request
\* carries that credential.
C10_GeneratorKeyFixed ==
    /\ generators_created <= 1
    /\ has_generator => generators_created = 1 /\ generator_api_key = first_key
    /\ \A i \in 1..Len(posts) :
          posts[i].authorization = "Bearer " \o Str(first_key)

\* A request went out with a credential that is neither what the prompt
\* stored nor what the session cache and the environment hold now.
C10_Witness ==
    /\ Len(posts) = 1
    /\ prompt_saved
    /\ generator_api_key # entered
    /\ session_key = entered
    /\ environ = entered
    /\ posts[1].authorization = "Bearer " \o generator_api_key

====
